---- MODULE Spec2Model ----
(***************************************************************************)
(* A model of the request builder (newRequest, newStreamRequest, fullURL,  *)
(* translateVertexModel) and of the dispatcher and error decoder           *)
(* (sendRequest, handlerRequestError) of the go-anthropic client.          *)
(*                                                                         *)
(* Text is modelled as a sequence of pieces: a path suffix is a sequence   *)
(* of its characters, a base URL and a model identifier are one piece each *)
(* (the code never looks inside them), and a response body is a sequence   *)
(* of JSON tokens.  Concatenation is \o.                                   *)
(***************************************************************************)
EXTENDS Integers, Sequences, FiniteSets, TLC

\* Bounds of the model.
MaxSetters == 2          \* longest list of header mutators passed to a builder
MaxBody == 4             \* longest response body, in JSON tokens

VARIABLES
    config,      \* Client.config: APIVersion, BaseURL, apikey, apiKeyFunc
    args,        \* the arguments of the builder calls: method, urlSuffix, requestSetters
    body,        \* the request body object the caller passes (mutated in place)
    pc,          \* the statement of the running function, "idle" between calls
    caller,      \* the function the caller invoked: newRequest, newStreamRequest, sendRequest
    model,       \* newRequest's local: model
    reqBody,     \* newRequest's local: reqBody
    req,         \* the request under construction (newRequest's req)
    i,           \* index of the next requestSetter to run
    nr,          \* what the newRequest call returned: [req, err]
    ret,         \* per builder, what it returned to the caller
    res,         \* sendRequest's res: the response the transport returned
    v,           \* the caller's result object: header and decoded fields
    closed,      \* how many times res.Body.Close() ran
    shape,       \* the error shape handlerRequestError unmarshalled into
    sendErr      \* what sendRequest returned

buildVars == <<args, body, model, reqBody, req, i, nr, ret>>
sendVars == <<res, v, closed, shape, sendErr>>
vars == <<config, pc, caller, buildVars, sendVars>>

(***************************************************************************)
(* Values                                                                  *)
(***************************************************************************)
NoReq == [kind |-> "nil"]
NoBody == [kind |-> "nil"]
NoErr == [kind |-> "nil"]

ModelClaude2Dot1 == "claude-2.1"
ModelClaude3Opus20240229 == "claude-3-opus-20240229"
ModelClaude3Sonnet20240229 == "claude-3-sonnet-20240229"
ModelClaude3Haiku20240307 == "claude-3-haiku-20240307"

\* A string as pieces of text: the empty string contributes nothing.
Text(s) == IF s = "" THEN <<>> ELSE <<s>>
\* A translation that forgets the table.
translateVertexModelIdentity(m) == m

translateVertexModel(m) ==
    CASE m = ModelClaude3Haiku20240307 -> "claude-3-haiku@20240307"
      [] m = ModelClaude3Opus20240229 -> "claude-3-opus@20240229"
      [] m = ModelClaude3Sonnet20240229 -> "claude-3-sonnet@20240229"
      [] OTHER -> m

\* The protocol version strings: the gateway's carry a distinguishing prefix.
DirectVersion == <<"2023-06-01">>
VertexVersion == <<"vertex-", "2023-10-16">>

isVertexAI(apiVersion) == Len(apiVersion) > 0 /\ apiVersion[1] = "vertex-"

IsVertexAI == isVertexAI(config.APIVersion)

\* fmt.Sprintf("%s/%s:%s", BaseURL, translateVertexModel(model), suffix[1:])
\* and fmt.Sprintf("%s%s", BaseURL, suffix).
fullURL(suffix, m) ==
    IF isVertexAI(config.APIVersion)
    THEN <<config.BaseURL, "/">> \o Text(translateVertexModel(m)) \o <<":">> \o Tail(suffix)
    ELSE <<config.BaseURL>> \o suffix

(***************************************************************************)
(* Headers: http.Header.Set stores a value under the canonical form of the *)
(* key, replacing what was there.                                          *)
(***************************************************************************)
CanonicalKey(k) ==
    CASE k = "anthropic-beta" -> "Anthropic-Beta"
      [] k = "accept" -> "Accept"
      [] OTHER -> k

HeaderSet(h, k, val) ==
    [x \in DOMAIN h \cup {CanonicalKey(k)} |-> IF x = CanonicalKey(k) THEN val ELSE h[x]]

EmptyHeader == [x \in {} |-> <<>>]

\* A requestSetter: req.Header.Set(key, value), as withBetaVersion does.
ApplySetter(r, setter) == [r EXCEPT !.header = HeaderSet(r.header, setter.key, <<setter.value>>)]

(***************************************************************************)
(* Request bodies.  A body of kind "vertex" implements VertexAISupport     *)
(* (GetModel, SetAnthropicVersion); a body of kind "plain" does not.       *)
(***************************************************************************)
ImplementsVertexAISupport(b) == b.kind = "vertex"

GetModel(b) == b.Model

SetAnthropicVersion(b, version) == [b EXCEPT !.AnthropicVersion = version]

\* json.Marshal(body): the fields in declaration order; it fails for a body
\* holding a value JSON cannot encode.
MarshalFails(b) == ~b.marshals

Marshal(b) ==
    IF b.kind = "vertex"
    THEN << [k |-> "model", val |-> Text(b.Model)],
            [k |-> "anthropic_version", val |-> b.AnthropicVersion] >>
    ELSE << [k |-> "model", val |-> Text(b.Model)] >>

\* http.NewRequestWithContext rejects a method that is not a token.
ValidMethod(m) == m \in {"GET", "POST"}

(***************************************************************************)
(* The inputs                                                              *)
(***************************************************************************)
Configs ==
    [APIVersion : {DirectVersion, VertexVersion},
     BaseURL : {"https://base"},
     apikey : {"static-key"},
     apiKeyFunc : {[kind |-> "nil"], [kind |-> "func", result |-> "dynamic-key"]}]

Methods == {"POST", "BAD METHOD"}

SuffixMessages == <<"/", "m", "e", "s", "s", "a", "g", "e", "s">>
SuffixV1Messages == <<"/", "v", "1", "/", "m", "e", "s", "s", "a", "g", "e", "s">>
Suffixes == {SuffixMessages, SuffixV1Messages}

Models == {"", ModelClaude2Dot1, ModelClaude3Haiku20240307,
           ModelClaude3Opus20240229, ModelClaude3Sonnet20240229}

Bodies ==
    {NoBody}
    \cup [kind : {"plain"}, Model : {ModelClaude2Dot1}, marshals : BOOLEAN]
    \cup [kind : {"vertex"}, Model : Models, AnthropicVersion : {<<>>, <<"stale">>},
          marshals : {TRUE}]
    \cup [kind : {"vertex"}, Model : {ModelClaude3Haiku20240307},
          AnthropicVersion : {<<>>}, marshals : {FALSE}]

Setters == [key : {"anthropic-beta", "accept"}, value : {"a", "b"}]

RECURSIVE SeqsUpTo(_, _)
SeqsUpTo(S, n) ==
    IF n = 0 THEN {<<>>}
    ELSE LET shorter == SeqsUpTo(S, n - 1)
         IN shorter \cup {Append(s, x) : s \in {t \in shorter : Len(t) = n - 1}, x \in S}

Builders == {"newRequest", "newStreamRequest"}

NotReturned == [done |-> FALSE, req |-> NoReq, err |-> NoErr]

(***************************************************************************)
(* newRequest, statement by statement                                      *)
(***************************************************************************)
\* A return of newRequest: to the caller, or back into newStreamRequest.
ReturnNewRequest(r, e) ==
    /\ nr' = [req |-> r, err |-> e]
    /\ IF caller = "newRequest"
       THEN /\ ret' = [ret EXCEPT !["newRequest"] = [done |-> TRUE, req |-> r, err |-> e]]
            /\ pc' = "idle"
            /\ caller' = "none"
       ELSE /\ pc' = "l168"
            /\ UNCHANGED <<ret, caller>>

EnterNewRequest ==
    /\ pc' = "l121"
    /\ model' = ""
    /\ reqBody' = <<>>
    /\ req' = NoReq
    /\ i' = 1
    /\ nr' = [req |-> NoReq, err |-> NoErr]

CallNewRequest ==
    /\ pc = "idle"
    /\ ~ret["newRequest"].done
    /\ caller' = "newRequest"
    /\ EnterNewRequest
    /\ UNCHANGED <<config, args, body, ret, sendVars>>
\* A capability check applied whatever the backend.
MustCheckBodyAnyBackend == body # NoBody

\* The gateway's capability check applies to a body that is present.
MustCheckBody == isVertexAI(config.APIVersion) /\ body # NoBody

\* lines 120-128
CheckBody ==
    /\ pc = "l121"
    /\ IF MustCheckBody
       THEN IF ImplementsVertexAISupport(body)
            THEN /\ model' = GetModel(body)
                 /\ body' = SetAnthropicVersion(body, config.APIVersion)
                 /\ pc' = "l131"
                 /\ UNCHANGED <<nr, ret, caller>>
            ELSE /\ ReturnNewRequest(NoReq, [kind |-> "notSupportedByVertexAI"])
                 /\ UNCHANGED <<model, body>>
       ELSE /\ pc' = "l131"
            /\ UNCHANGED <<model, body, nr, ret, caller>>
    /\ UNCHANGED <<config, args, reqBody, req, i, sendVars>>

\* lines 130-136
MarshalBody ==
    /\ pc = "l131"
    /\ IF body # NoBody
       THEN IF MarshalFails(body)
            THEN /\ ReturnNewRequest(NoReq, [kind |-> "marshalError"])
                 /\ UNCHANGED reqBody
            ELSE /\ reqBody' = Marshal(body)
                 /\ pc' = "l138"
                 /\ UNCHANGED <<nr, ret, caller>>
       ELSE /\ pc' = "l138"
            /\ UNCHANGED <<reqBody, nr, ret, caller>>
    /\ UNCHANGED <<config, args, body, model, req, i, sendVars>>

\* lines 138-141
BuildRequest ==
    /\ pc = "l138"
    /\ IF ValidMethod(args.method)
       THEN /\ req' = [kind |-> "req", method |-> args.method,
                       url |-> fullURL(args.urlSuffix, model),
                       body |-> reqBody, header |-> EmptyHeader]
            /\ pc' = "l143"
            /\ UNCHANGED <<nr, ret, caller>>
       ELSE /\ ReturnNewRequest(NoReq, [kind |-> "newRequestError"])
            /\ UNCHANGED req
    /\ UNCHANGED <<config, args, body, model, reqBody, i, sendVars>>

JSONContent == <<"application/json; charset=utf-8">>

BaseHeaders(h) == HeaderSet(HeaderSet(h, "Content-Type", JSONContent), "Accept", JSONContent)

\* lines 143-144
SetBaseHeaders ==
    /\ pc = "l143"
    /\ req' = [req EXCEPT !.header = BaseHeaders(req.header)]
    /\ pc' = "l146"
    /\ UNCHANGED <<config, args, body, model, reqBody, i, nr, ret, caller, sendVars>>

\* lines 146-149
ResolveAPIKey ==
    IF config.apiKeyFunc.kind # "nil" THEN config.apiKeyFunc.result ELSE config.apikey

\* lines 151-156
AuthHeaders(h, apiKey) ==
    IF isVertexAI(config.APIVersion)
    THEN HeaderSet(h, "Authorization", <<"Bearer ", apiKey>>)
    ELSE HeaderSet(HeaderSet(h, "X-Api-Key", <<apiKey>>), "Anthropic-Version", config.APIVersion)

SetAuthHeaders ==
    /\ pc = "l146"
    /\ req' = [req EXCEPT !.header = AuthHeaders(req.header, ResolveAPIKey)]
    /\ pc' = "l158"
    /\ UNCHANGED <<config, args, body, model, reqBody, i, nr, ret, caller, sendVars>>
\* A loop that runs the setters last to first.
NextSetterReversed(setters, k) == setters[Len(setters) + 1 - k]

\* The setter the loop of lines 158-160 runs at its k-th turn.
NextSetter(setters, k) == setters[k]

\* lines 158-160, one turn of the loop
RunSetter ==
    /\ pc = "l158"
    /\ i <= Len(args.requestSetters)
    /\ req' = ApplySetter(req, NextSetter(args.requestSetters, i))
    /\ i' = i + 1
    /\ UNCHANGED <<config, pc, args, body, model, reqBody, nr, ret, caller, sendVars>>

\* line 162
ReturnRequest ==
    /\ pc = "l158"
    /\ i > Len(args.requestSetters)
    /\ ReturnNewRequest(req, NoErr)
    /\ UNCHANGED <<config, args, body, model, reqBody, req, i, sendVars>>

(***************************************************************************)
(* newStreamRequest                                                        *)
(***************************************************************************)
\* line 167
CallNewStreamRequest ==
    /\ pc = "idle"
    /\ ~ret["newStreamRequest"].done
    /\ caller' = "newStreamRequest"
    /\ EnterNewRequest
    /\ UNCHANGED <<config, args, body, ret, sendVars>>
\* Streaming headers that also replace the content type.
StreamHeadersContentType(h) ==
    HeaderSet(HeaderSet(HeaderSet(HeaderSet(h, "Accept", <<"text/event-stream">>),
                                  "Cache-Control", <<"no-cache">>),
                        "Connection", <<"keep-alive">>),
              "Content-Type", <<"text/event-stream">>)

\* lines 172-174
StreamHeaders(h) ==
    HeaderSet(HeaderSet(HeaderSet(h, "Accept", <<"text/event-stream">>),
                        "Cache-Control", <<"no-cache">>),
              "Connection", <<"keep-alive">>)

\* lines 168-176
FinishStreamRequest ==
    /\ pc = "l168"
    /\ caller = "newStreamRequest"
    /\ ret' = [ret EXCEPT !["newStreamRequest"] =
                  IF nr.err # NoErr
                  THEN [done |-> TRUE, req |-> NoReq, err |-> nr.err]
                  ELSE [done |-> TRUE,
                        req |-> [nr.req EXCEPT !.header = StreamHeaders(nr.req.header)],
                        err |-> NoErr]]
    /\ pc' = "idle"
    /\ caller' = "none"
    /\ UNCHANGED <<config, args, body, model, reqBody, req, i, nr, sendVars>>

(***************************************************************************)
(* The builders' specification: a client, one set of arguments, and the    *)
(* two builders called on them, in either order.                           *)
(***************************************************************************)
NoRes == [kind |-> "nil"]
FreshResult == [header |-> <<"unset">>, decoded |-> <<"unset">>]

SendIdle ==
    /\ res = NoRes
    /\ v = FreshResult
    /\ closed = 0
    /\ shape = "none"
    /\ sendErr = NoErr

BuildIdle ==
    /\ model = ""
    /\ reqBody = <<>>
    /\ req = NoReq
    /\ i = 1
    /\ nr = [req |-> NoReq, err |-> NoErr]
    /\ ret = [b \in Builders |-> NotReturned]

InitBuild ==
    /\ config \in Configs
    /\ args \in [method : Methods, urlSuffix : Suffixes,
                 requestSetters : SeqsUpTo(Setters, MaxSetters)]
    /\ body \in Bodies
    /\ pc = "idle"
    /\ caller = "none"
    /\ BuildIdle
    /\ SendIdle

NextBuild ==
    \/ CallNewRequest
    \/ CheckBody
    \/ MarshalBody
    \/ BuildRequest
    \/ SetBaseHeaders
    \/ SetAuthHeaders
    \/ RunSetter
    \/ ReturnRequest
    \/ CallNewStreamRequest
    \/ FinishStreamRequest

SpecBuild == InitBuild /\ [][NextBuild]_vars

(***************************************************************************)
(* Response bodies and JSON.  A body is a sequence of tokens: "{" and "}",  *)
(* "e:" (the key "error" and its colon), "null", and "E" (the object        *)
(* {"type": "t", "message": "m"}).  A JSON value of this alphabet is null,  *)
(* E, {} or {"error": value}; ParseValue reads the value that starts at     *)
(* position p and reports where it ends, how many {"error": ...} wrap it    *)
(* (depth) and what lies innermost (base).                                  *)
(***************************************************************************)
Tokens == {"{", "}", "e:", "null", "E"}

NoValue(p) == [ok |-> FALSE, next |-> p, depth |-> 0, base |-> "none"]

RECURSIVE ParseValue(_, _)
ParseValue(s, p) ==
    IF p > Len(s) THEN NoValue(p)
    ELSE CASE s[p] = "null" -> [ok |-> TRUE, next |-> p + 1, depth |-> 0, base |-> "null"]
           [] s[p] = "E" -> [ok |-> TRUE, next |-> p + 1, depth |-> 0, base |-> "E"]
           [] s[p] = "{" ->
                IF p + 1 <= Len(s) /\ s[p + 1] = "}"
                THEN [ok |-> TRUE, next |-> p + 2, depth |-> 0, base |-> "empty"]
                ELSE IF p + 1 <= Len(s) /\ s[p + 1] = "e:"
                THEN LET inner == ParseValue(s, p + 2)
                     IN IF inner.ok /\ inner.next <= Len(s) /\ s[inner.next] = "}"
                        THEN [ok |-> TRUE, next |-> inner.next + 1,
                              depth |-> inner.depth + 1, base |-> inner.base]
                        ELSE NoValue(p)
                ELSE NoValue(p)
           [] OTHER -> NoValue(p)

\* json.Unmarshal accepts the bytes when they are one JSON value and nothing else.
UnmarshalOK(bytes) == ParseValue(bytes, 1).ok /\ ParseValue(bytes, 1).next = Len(bytes) + 1

\* The Error field after unmarshalling into a struct {Error *T `json:"error"`},
\* T = {type, message}: nil when the key is absent or null, else a T holding
\* the fields the value gives.
NilError == [kind |-> "nil"]

ErrorField(bytes, T) ==
    LET val == ParseValue(bytes, 1)
    IN IF val.depth = 0 \/ (val.depth = 1 /\ val.base = "null")
       THEN NilError
       ELSE IF val.depth = 1 /\ val.base = "E"
       THEN [kind |-> T, type |-> "t", message |-> "m"]
       ELSE [kind |-> T, type |-> "", message |-> ""]

\* json.Unmarshal(bodyBytes, &errRes) for the two error shapes.
UnmarshalErrorResponse(bytes) ==
    IF UnmarshalOK(bytes)
    THEN [err |-> NoErr, Error |-> ErrorField(bytes, "APIError")]
    ELSE [err |-> [kind |-> "jsonSyntaxError"], Error |-> NilError]

UnmarshalVertexAIErrorResponse(bytes) ==
    IF UnmarshalOK(bytes)
    THEN [err |-> NoErr, Error |-> ErrorField(bytes, "VertexAPIError")]
    ELSE [err |-> [kind |-> "jsonSyntaxError"], Error |-> NilError]

(***************************************************************************)
(* handlerRequestError                                                     *)
(***************************************************************************)
StatusOK == 200
StatusBadRequest == 400
StatusUnauthorized == 401
\* A status test whose upper bound is off by one.
IsErrorStatusOffByOne(status) == status < StatusOK \/ status > StatusBadRequest

\* line 62
IsErrorStatus(status) == status < StatusOK \/ status >= StatusBadRequest
\* A shape selection that forgets the backend.
UseVertexShapeAnyBackend(status) == status = StatusUnauthorized

\* line 71
UseVertexShape(status) == IsVertexAI /\ status = StatusUnauthorized
\* A raw error that drops the body.
RawErrorNoBody(status, err, bodyBytes) ==
    [kind |-> "RequestError", StatusCode |-> status, Err |-> err, RawBody |-> <<>>]

\* lines 75-80 and 87-92
RawError(status, err, bodyBytes) ==
    [kind |-> "RequestError", StatusCode |-> status, Err |-> err, RawBody |-> <<bodyBytes>>]

\* lines 82 and 95: fmt.Errorf("error, status code: %d, message: %w", ...)
DomainError(status, inner) ==
    [kind |-> "wrapped", StatusCode |-> status, Err |-> inner]

\* lines 73-82 and 85-95
DecodeError(status, bodyBytes, errRes) ==
    IF errRes.err # NoErr \/ errRes.Error = NilError
    THEN RawError(status, errRes.err, bodyBytes)
    ELSE DomainError(status, errRes.Error)

\* The error handlerRequestError returns and the shape it unmarshalled into.
handlerRequestError(resp) ==
    IF IsErrorStatus(resp.StatusCode)
    THEN IF resp.readFails
         THEN [err |-> [kind |-> "RequestError", StatusCode |-> resp.StatusCode,
                        Err |-> [kind |-> "readError"], RawBody |-> <<>>],
               shape |-> "none"]
         ELSE IF UseVertexShape(resp.StatusCode)
         THEN [err |-> DecodeError(resp.StatusCode, resp.Body,
                                   UnmarshalVertexAIErrorResponse(resp.Body)),
               shape |-> "VertexAIErrorResponse"]
         ELSE [err |-> DecodeError(resp.StatusCode, resp.Body,
                                   UnmarshalErrorResponse(resp.Body)),
               shape |-> "ErrorResponse"]
    ELSE [err |-> NoErr, shape |-> "none"]

(***************************************************************************)
(* sendRequest, statement by statement                                     *)
(***************************************************************************)
Statuses == {199, 200, 399, 400, 401, 500}

Responses ==
    [kind : {"response"}, StatusCode : Statuses, Header : {<<"response-headers">>},
     Body : SeqsUpTo(Tokens, MaxBody), readFails : {FALSE}]
    \cup [kind : {"response"}, StatusCode : Statuses, Header : {<<"response-headers">>},
          Body : {<<"{", "e:">>}, readFails : {TRUE}]

TransportErrors == {[kind |-> "timeout"], [kind |-> "connectionRefused"]}

\* lines 42-46: the transport fails, or returns a response whose body the
\* deferred Close will release.
DoRequest ==
    /\ pc = "idle"
    /\ caller' = "sendRequest"
    /\ \/ \E e \in TransportErrors :
             /\ res' = [kind |-> "failed", err |-> e]
             /\ sendErr' = e
             /\ pc' = "returned"
       \/ \E r \in Responses :
             /\ res' = r
             /\ pc' = "s48"
             /\ UNCHANGED sendErr
    /\ UNCHANGED <<config, buildVars, v, closed, shape>>
\* A result that ignores the headers it is given.
SetHeaderIgnored(result, header) == result

\* httpHeader.SetHeader, lines 22-24
SetHeader(result, header) == [result EXCEPT !.header = header]

\* line 48
StoreHeader ==
    /\ pc = "s48"
    /\ v' = SetHeader(v, res.Header)
    /\ pc' = "s50"
    /\ UNCHANGED <<config, caller, buildVars, res, closed, shape, sendErr>>

\* lines 50-52
CheckStatus ==
    /\ pc = "s50"
    /\ LET h == handlerRequestError(res)
       IN /\ shape' = h.shape
          /\ IF h.err # NoErr
             THEN /\ sendErr' = h.err
                  /\ pc' = "defer"
             ELSE /\ pc' = "s54"
                  /\ UNCHANGED sendErr
    /\ UNCHANGED <<config, caller, buildVars, res, v, closed>>

\* json.NewDecoder(res.Body).Decode(v): reads the first JSON value of the
\* body and stores it into v; null stores nothing.
DecodeInto(result, resp) ==
    LET val == ParseValue(resp.Body, 1)
    IN IF resp.readFails THEN [err |-> [kind |-> "readError"], v |-> result]
       ELSE IF ~val.ok THEN [err |-> [kind |-> "jsonSyntaxError"], v |-> result]
       ELSE IF val.depth = 0 /\ val.base = "null" THEN [err |-> NoErr, v |-> result]
       ELSE [err |-> NoErr,
             v |-> [result EXCEPT !.decoded = <<"decoded", val.depth, val.base>>]]

\* lines 54-58
DecodeBody ==
    /\ pc = "s54"
    /\ LET d == DecodeInto(v, res)
       IN /\ v' = d.v
          /\ sendErr' = d.err
    /\ pc' = "defer"
    /\ UNCHANGED <<config, caller, buildVars, res, closed, shape>>
\* A return path that leaves the body open.
DeferredCloseSkipped(n) == n

\* line 46: the deferred res.Body.Close() runs as sendRequest returns.
DeferredClose(n) == n + 1

RunDeferred ==
    /\ pc = "defer"
    /\ closed' = DeferredClose(closed)
    /\ pc' = "returned"
    /\ UNCHANGED <<config, caller, buildVars, res, v, shape, sendErr>>

InitSend ==
    /\ config \in Configs
    /\ args = [method |-> "POST", urlSuffix |-> SuffixMessages, requestSetters |-> <<>>]
    /\ body = NoBody
    /\ pc = "idle"
    /\ caller = "none"
    /\ BuildIdle
    /\ SendIdle

NextSend ==
    \/ DoRequest
    \/ StoreHeader
    \/ CheckStatus
    \/ DecodeBody
    \/ RunDeferred

SpecSend == InitSend /\ [][NextSend]_vars

(***************************************************************************)
(* Properties of the dispatcher and the error decoder (SpecSend)           *)
(***************************************************************************)
GotResponse == res.kind = "response"

\* C1: whenever the transport returned a response, the result holds that
\* response's headers from the moment the status code is inspected on, so also
\* when sendRequest returns the error of a non-success status or a decode error.
C1_HeadersBeforeStatus ==
    /\ GotResponse /\ pc \in {"s50", "s54", "defer", "returned"} => v.header = res.Header
    /\ shape # "none" \/ sendErr # NoErr => ~GotResponse \/ v.header = res.Header

\* C1 happens: a success status, a body that is not JSON, the decode error
\* returned and the headers in the result.
C1_Witness ==
    /\ pc = "returned"
    /\ GotResponse
    /\ res.StatusCode = 200
    /\ res.Body = <<"}", "{">>
    /\ sendErr = [kind |-> "jsonSyntaxError"]
    /\ v.header = res.Header

\* C2: a status in 200..399 is decoded into the result and the error decoder
\* gives no error; any other status returns the error decoder's error and the
\* result's decoded fields stay as they were.
C2_StatusRouting ==
    pc = "returned" /\ GotResponse =>
        IF 200 <= res.StatusCode /\ res.StatusCode <= 399
        THEN /\ handlerRequestError(res).err = NoErr
             /\ shape = "none"
             /\ sendErr.kind \in {"nil", "jsonSyntaxError", "readError"}
             /\ sendErr = NoErr /\ res.Body[1] # "null" => v.decoded # FreshResult.decoded
             /\ sendErr # NoErr => v.decoded = FreshResult.decoded
        ELSE /\ sendErr # NoErr
             /\ sendErr = handlerRequestError(res).err
             /\ sendErr.kind \in {"RequestError", "wrapped"}
             /\ sendErr.StatusCode = res.StatusCode
             /\ v.decoded = FreshResult.decoded

\* C2 happens: status 400 with a body that would decode is an error and is not
\* decoded into the result.
C2_Witness ==
    /\ pc = "returned"
    /\ GotResponse
    /\ res.StatusCode = 400
    /\ res.Body = <<"{", "}">>
    /\ sendErr.kind = "RequestError"
    /\ v.decoded = FreshResult.decoded

\* The body, read in full, is not one JSON value.
NotJSON(bytes) == ~UnmarshalOK(bytes)

\* The body is a JSON value whose inner error is absent or null.
NoInnerError(bytes) ==
    UnmarshalOK(bytes) /\ (ParseValue(bytes, 1).depth = 0 \/ bytes = <<"{", "e:", "null", "}">>)

NonSuccess(status) == status < 200 \/ status >= 400

\* C3: a non-success response whose body does not parse, or parses with an
\* absent or null inner error, yields the raw error with the response's status
\* code, the body bytes as received, and the parse failure when there was one.
C3_RawFallback ==
    pc = "returned" /\ GotResponse /\ NonSuccess(res.StatusCode) /\ ~res.readFails
      /\ (NotJSON(res.Body) \/ NoInnerError(res.Body)) =>
        /\ sendErr.kind = "RequestError"
        /\ sendErr.StatusCode = res.StatusCode
        /\ sendErr.RawBody = <<res.Body>>
        /\ sendErr.Err = IF NotJSON(res.Body) THEN [kind |-> "jsonSyntaxError"] ELSE NoErr

\* C3 happens: status 500 with a body that is not JSON.
C3_Witness ==
    /\ pc = "returned"
    /\ GotResponse
    /\ res.StatusCode = 500
    /\ res.Body = <<"E", "E", "{">>
    /\ sendErr.kind = "RequestError"
    /\ sendErr.RawBody = <<<<"E", "E", "{">>>>
    /\ sendErr.Err # NoErr

\* C7: a sendRequest that received a response has closed its body exactly
\* once when it returns, on every path, and never earlier or twice; when the
\* transport failed there is nothing to close and its error is returned as is.
C7_BodyClosedOnce ==
    /\ closed <= 1
    /\ pc = "returned" /\ GotResponse => closed = 1
    /\ pc # "returned" => closed = 0
    /\ res.kind = "failed" => pc = "returned" /\ closed = 0 /\ sendErr = res.err

\* C7 happens: the error body could not be read, and the body was closed.
C7_Witness ==
    /\ pc = "returned"
    /\ GotResponse
    /\ res.readFails
    /\ res.StatusCode = 500
    /\ sendErr.kind = "RequestError"
    /\ closed = 1

\* C10: the gateway shape is used exactly for status 401 in gateway mode, the
\* standard shape for every other non-success response; a body with a populated
\* inner error gives a domain error with the status code and the parsed type
\* and message.
C10_ShapeSelection ==
    pc \in {"defer", "returned"} /\ GotResponse /\ NonSuccess(res.StatusCode) /\ ~res.readFails =>
        /\ shape = IF config.APIVersion = VertexVersion /\ res.StatusCode = 401
                   THEN "VertexAIErrorResponse" ELSE "ErrorResponse"
        /\ res.Body = <<"{", "e:", "E", "}">> =>
             sendErr = [kind |-> "wrapped", StatusCode |-> res.StatusCode,
                        Err |-> [kind |-> IF shape = "VertexAIErrorResponse"
                                          THEN "VertexAPIError" ELSE "APIError",
                                 type |-> "t", message |-> "m"]]
        /\ UnmarshalOK(res.Body) /\ ~NoInnerError(res.Body) =>
             /\ sendErr.kind = "wrapped"
             /\ sendErr.StatusCode = res.StatusCode
             /\ sendErr.Err # NilError

\* C10 happens: a 401 from the gateway whose body matches the gateway shape.
C10_Witness ==
    /\ pc = "returned"
    /\ GotResponse
    /\ config.APIVersion = VertexVersion
    /\ res.StatusCode = 401
    /\ res.Body = <<"{", "e:", "E", "}">>
    /\ shape = "VertexAIErrorResponse"
    /\ sendErr.kind = "wrapped"

(***************************************************************************)
(* Properties of the request builders (SpecBuild)                          *)
(***************************************************************************)
Gateway == config.APIVersion = VertexVersion

Built(b) == ret[b].done /\ ret[b].err = NoErr

EndsWith(s, t) == Len(s) >= Len(t) /\ SubSeq(s, Len(s) - Len(t) + 1, Len(s)) = t

\* The model identifier the call supplies.
SuppliedModel == IF body = NoBody THEN "" ELSE body.Model

\* The gateway's name of a model.
GatewayName(m) ==
    IF m = "claude-3-haiku-20240307" THEN "claude-3-haiku@20240307"
    ELSE IF m = "claude-3-opus-20240229" THEN "claude-3-opus@20240229"
    ELSE IF m = "claude-3-sonnet-20240229" THEN "claude-3-sonnet@20240229"
    ELSE m

\* C4 as stated: with suffix /v1/messages and model claude-3-haiku-20240307 the
\* gateway URL ends with claude-3-haiku@20240307:messages.
C4_AsStated ==
    \A b \in Builders :
        Built(b) /\ Gateway /\ args.urlSuffix = SuffixV1Messages
          /\ SuppliedModel = "claude-3-haiku-20240307" =>
            EndsWith(ret[b].req.url,
                     <<"claude-3-haiku@20240307", ":", "m", "e", "s", "s", "a", "g", "e", "s">>)

\* C4 amended: with suffix /v1/messages and model claude-3-haiku-20240307 the
\* gateway URL ends with claude-3-haiku@20240307:v1/messages (with suffix
\* /messages it ends with claude-3-haiku@20240307:messages); in general the
\* URL is the base URL, a separator, the translated model, a colon in place of
\* the suffix's leading separator, and the rest of the suffix.
C4_GatewayURL ==
    \A b \in Builders :
        Built(b) /\ Gateway =>
            LET url == ret[b].req.url
                suffix == args.urlSuffix
            IN /\ suffix[1] = "/"
               /\ url = <<config.BaseURL, "/">> \o Text(GatewayName(SuppliedModel))
                          \o <<":">> \o SubSeq(suffix, 2, Len(suffix))
               /\ suffix = SuffixV1Messages /\ SuppliedModel = "claude-3-haiku-20240307" =>
                    EndsWith(url, <<"claude-3-haiku@20240307", ":", "v", "1", "/",
                                    "m", "e", "s", "s", "a", "g", "e", "s">>)
               /\ suffix = SuffixMessages /\ SuppliedModel = "claude-3-haiku-20240307" =>
                    EndsWith(url, <<"claude-3-haiku@20240307", ":",
                                    "m", "e", "s", "s", "a", "g", "e", "s">>)

\* C4 happens: a gateway request for /v1/messages and the haiku model is built.
C4_Witness ==
    /\ Built("newRequest")
    /\ Gateway
    /\ args.urlSuffix = SuffixV1Messages
    /\ SuppliedModel = "claude-3-haiku-20240307"
    /\ ret["newRequest"].req.url[3] = "claude-3-haiku@20240307"

\* C5: in gateway mode every call either fails and produces no request, or
\* builds a URL with a non-empty model identifier before the colon.
C5_ModelPresentOrError ==
    \A b \in Builders :
        ret[b].done /\ Gateway =>
            \/ ret[b].err # NoErr /\ ret[b].req = NoReq
            \/ ret[b].err = NoErr /\ ret[b].req.url[3] # ":"

\* The pair json.Marshal writes for the protocol-version field.
VersionField == [k |-> "anthropic_version", val |-> config.APIVersion]

HasField(bytes, f) == \E n \in 1..Len(bytes) : bytes[n] = f

\* C6: in gateway mode a body without the two capability operations makes
\* newRequest fail with the configuration error and no request; a body with
\* them has its protocol-version field set to the configured version before
\* it is serialized, so the bytes carry it; in direct mode the check is not
\* applied and the body is never changed.
C6_Step ==
    /\ pc = "l121" /\ Gateway /\ body # NoBody /\ body.kind # "vertex" =>
         /\ nr' = [req |-> NoReq, err |-> [kind |-> "notSupportedByVertexAI"]]
         /\ pc' \in {"idle", "l168"}
         /\ req' = NoReq
    /\ pc = "l121" /\ Gateway /\ body # NoBody /\ body.kind = "vertex" =>
         /\ body'.AnthropicVersion = config.APIVersion
         /\ reqBody' = <<>>
         /\ pc' = "l131"
    /\ Gateway /\ reqBody' # reqBody /\ reqBody' # <<>> => HasField(reqBody', VersionField)
    /\ \A b \in Builders :
         ret'[b].done /\ Gateway /\ body # NoBody =>
            IF body.kind # "vertex"
            THEN ret'[b].err = [kind |-> "notSupportedByVertexAI"] /\ ret'[b].req = NoReq
            ELSE ret'[b].err = NoErr => HasField(ret'[b].req.body, VersionField)
    /\ ~Gateway =>
         /\ body' = body
         /\ nr'.err.kind # "notSupportedByVertexAI"
         /\ \A b \in Builders : ret'[b].err.kind # "notSupportedByVertexAI"

\* C6: every step of the builders keeps the capability check, the order of
\* the protocol-version injection before serialization, and the direct-mode
\* frame stated in C6_Step.
C6_CapabilityCheck == [][C6_Step]_vars

\* C6 happens: a gateway request whose body had a stale protocol version was
\* built, and its bytes carry the configured one.
C6_Witness ==
    /\ Built("newRequest")
    /\ ~ret["newStreamRequest"].done
    /\ Gateway
    /\ body # NoBody
    /\ body.kind = "vertex"
    /\ HasField(ret["newRequest"].req.body, VersionField)
    /\ ~HasField(ret["newRequest"].req.body, [k |-> "anthropic_version", val |-> <<"stale">>])

StreamKeys == {"Accept", "Cache-Control", "Connection"}

StreamValue(k) ==
    IF k = "Accept" THEN <<"text/event-stream">>
    ELSE IF k = "Cache-Control" THEN <<"no-cache">>
    ELSE <<"keep-alive">>

\* C8: on the same inputs newStreamRequest fails exactly when newRequest does,
\* with the same error, and otherwise returns the same method, URL, body and
\* headers, except Accept, Cache-Control and Connection, which hold the
\* streaming values whatever the header mutators wrote.
C8_StreamEquivalence ==
    LET n == ret["newRequest"]
        s == ret["newStreamRequest"]
    IN n.done /\ s.done =>
        /\ n.err = s.err
        /\ n.err # NoErr => n.req = NoReq /\ s.req = NoReq
        /\ n.err = NoErr =>
             /\ s.req.method = n.req.method
             /\ s.req.url = n.req.url
             /\ s.req.body = n.req.body
             /\ DOMAIN s.req.header = DOMAIN n.req.header \cup StreamKeys
             /\ \A k \in DOMAIN s.req.header :
                    s.req.header[k] = IF k \in StreamKeys THEN StreamValue(k) ELSE n.req.header[k]

\* C8 happens: both builders ran on a call whose last mutator wrote Accept.
C8_Witness ==
    /\ Built("newRequest")
    /\ Built("newStreamRequest")
    /\ Len(args.requestSetters) = 2
    /\ args.requestSetters[2].key = "accept"
    /\ ret["newRequest"].req.header["Accept"] = <<args.requestSetters[2].value>>
    /\ ret["newStreamRequest"].req.header["Accept"] = <<"text/event-stream">>

\* The API key a request carries.
ResolvedKey ==
    IF config.apiKeyFunc.kind = "func" THEN config.apiKeyFunc.result ELSE config.apikey

\* The headers newRequest sets itself.
OwnHeaders ==
    IF Gateway
    THEN [k \in {"Content-Type", "Accept", "Authorization"} |->
            IF k = "Authorization" THEN <<"Bearer ", ResolvedKey>>
            ELSE <<"application/json; charset=utf-8">>]
    ELSE [k \in {"Content-Type", "Accept", "X-Api-Key", "Anthropic-Version"} |->
            IF k = "X-Api-Key" THEN <<ResolvedKey>>
            ELSE IF k = "Anthropic-Version" THEN config.APIVersion
            ELSE <<"application/json; charset=utf-8">>]

HeaderName(k) == IF k = "accept" THEN "Accept" ELSE IF k = "anthropic-beta" THEN "Anthropic-Beta" ELSE k

\* The positions of the mutators that write header h.
Writers(h) == {n \in 1..Len(args.requestSetters) : HeaderName(args.requestSetters[n].key) = h}

LastWriter(h) == CHOOSE n \in Writers(h) : \A m \in Writers(h) : m <= n

\* C9: when the header mutators start, the request holds exactly the JSON
\* content type and accept headers and its backend's authentication with the
\* resolved key; the request newRequest returns holds, for a header some
\* mutator wrote, the value of the last mutator that wrote it, and for every
\* other header the value newRequest set.
C9_HeadersThenMutators ==
    /\ pc = "l158" /\ i = 1 => req.header = OwnHeaders
    /\ Built("newRequest") =>
         LET h == ret["newRequest"].req.header
         IN /\ DOMAIN h = DOMAIN OwnHeaders
                            \cup {HeaderName(args.requestSetters[n].key) :
                                    n \in 1..Len(args.requestSetters)}
            /\ \A k \in DOMAIN h :
                  h[k] = IF Writers(k) # {}
                         THEN <<args.requestSetters[LastWriter(k)].value>>
                         ELSE OwnHeaders[k]

\* C9 happens: two mutators wrote the same header with different values, under
\* a dynamically resolved key.
C9_Witness ==
    /\ Built("newRequest")
    /\ config.apiKeyFunc.kind = "func"
    /\ Len(args.requestSetters) = 2
    /\ args.requestSetters[1] = [key |-> "anthropic-beta", value |-> "a"]
    /\ args.requestSetters[2] = [key |-> "anthropic-beta", value |-> "b"]
    /\ ret["newRequest"].req.header["Anthropic-Beta"] = <<"b">>

====
